---- MODULE Spec2Model ----
(***************************************************************************)
(* A model of the SQL front end: the read loop of src/main.rs, the         *)
(* tokenizer of src/tokenizer.rs and the recursive-descent / Pratt parser  *)
(* of src/parser.rs.  The tokenizer is a pure function of the text and is  *)
(* modelled by operators; the parser is modelled as a machine that makes   *)
(* one cursor move (next / expect) per step, with the Rust call stack of   *)
(* parse_select / parse_create_table / parse_expression kept explicitly.   *)
(***************************************************************************)
EXTENDS Integers, Sequences, FiniteSets, TLC

(***************************************************************************)
(* Tokens (crate::token, as constructed in tokenizer.rs): a kind and the   *)
(* payload the kind carries ("" when it carries none).  A Number carries   *)
(* its u64 value, written as the canonical decimal numeral.                *)
(***************************************************************************)
Tok(kind, payload) == [k |-> kind, v |-> payload]

Keyword(word) == Tok("Keyword", word)

Identifier(name) == Tok("Identifier", name)

Number(n) == Tok("Number", n)

String(s) == Tok("String", s)

Invalid(ch) == Tok("Invalid", ch)

Punct(kind) == Tok(kind, "")

Eof == Punct("Eof")

Plus == Punct("Plus")
Minus == Punct("Minus")
Star == Punct("Star")
Divide == Punct("Divide")
LeftParentheses == Punct("LeftParentheses")
RightParentheses == Punct("RightParentheses")
Comma == Punct("Comma")
Semicolon == Punct("Semicolon")
Equal == Punct("Equal")
NotEqual == Punct("NotEqual")
LessThan == Punct("LessThan")
GreaterThan == Punct("GreaterThan")
GreaterThanOrEqual == Punct("GreaterThanOrEqual")
LessThanOrEqual == Punct("LessThanOrEqual")

(***************************************************************************)
(* Characters.  A text is a sequence of one-character strings.             *)
(***************************************************************************)
Digits == <<"0", "1", "2", "3", "4", "5", "6", "7", "8", "9">>

LowerCase == <<"a", "b", "c", "d", "e", "f", "g", "h", "i", "j", "k", "l", "m",
               "n", "o", "p", "q", "r", "s", "t", "u", "v", "w", "x", "y", "z">>

UpperCase == <<"A", "B", "C", "D", "E", "F", "G", "H", "I", "J", "K", "L", "M",
               "N", "O", "P", "Q", "R", "S", "T", "U", "V", "W", "X", "Y", "Z">>

Range(s) == {s[i] : i \in 1..Len(s)}

IndexOf(s, c) == CHOOSE i \in 1..Len(s) : s[i] = c

is_whitespace(ch) == ch \in {" ", "\n", "\t", "\r"}

is_ascii_digit(ch) == ch \in Range(Digits)

is_ascii_alphabetic(ch) == ch \in Range(LowerCase) \cup Range(UpperCase)

is_ascii_alphanumeric(ch) == is_ascii_alphabetic(ch) \/ is_ascii_digit(ch)

\* char::to_uppercase on the characters of a word
to_uppercase_char(ch) ==
    IF ch \in Range(LowerCase) THEN UpperCase[IndexOf(LowerCase, ch)] ELSE ch

RECURSIVE Concat(_)
\* the String built by pushing the characters of s in order
Concat(s) == IF s = <<>> THEN "" ELSE s[1] \o Concat(Tail(s))

to_uppercase(word) == Concat([i \in 1..Len(word) |-> to_uppercase_char(word[i])])

(***************************************************************************)
(* str::parse::<u64>: the digits are accumulated most significant first    *)
(* with checked arithmetic; the result is Err as soon as the value leaves  *)
(* 0 .. 2^64 - 1.  Values are kept as canonical numerals (no leading       *)
(* zero), which is exact at any width.                                     *)
(***************************************************************************)
U64Max == <<"1", "8", "4", "4", "6", "7", "4", "4", "0", "7", "3", "7", "0", "9",
            "5", "5", "1", "6", "1", "5">>

DigitValue(ch) == IndexOf(Digits, ch) - 1

RECURSIVE NumeralLess(_, _)
\* a < b for two canonical numerals of the same length
NumeralLess(a, b) ==
    IF a = <<>> THEN FALSE
    ELSE IF a[1] # b[1] THEN DigitValue(a[1]) < DigitValue(b[1])
    ELSE NumeralLess(Tail(a), Tail(b))

ExceedsU64(numeral) ==
    \/ Len(numeral) > Len(U64Max)
    \/ Len(numeral) = Len(U64Max) /\ NumeralLess(U64Max, numeral)

\* acc * 10 + digit on canonical numerals
PushDigit(acc, ch) == IF acc = <<"0">> THEN <<ch>> ELSE Append(acc, ch)

RECURSIVE parse_u64_from(_, _)
parse_u64_from(acc, rest) ==
    IF rest = <<>> THEN [ok |-> TRUE, value |-> Concat(acc)]
    ELSE LET n == PushDigit(acc, rest[1])
         IN  IF ExceedsU64(n) THEN [ok |-> FALSE, value |-> ""]
             ELSE parse_u64_from(n, Tail(rest))

parse_u64(digits) == parse_u64_from(<<"0">>, digits)

(***************************************************************************)
(* The tokenizer.  The Peekable<Chars> cursor is the index i of the next   *)
(* unread character of the text s.  Each reader returns the token and the  *)
(* cursor after it; panic is TRUE when the Rust code panics instead.       *)
(***************************************************************************)
Scanned(token, cursor) == [tok |-> token, i |-> cursor, panic |-> FALSE]

Panicked(cursor) == [tok |-> Eof, i |-> cursor, panic |-> TRUE]

consume_single(s, i, token) == Scanned(token, i + 1)

consume_if(s, i, expected) == i <= Len(s) /\ s[i] = expected

RECURSIVE DigitsEnd(_, _)
\* the cursor after the maximal run of digits starting at i
DigitsEnd(s, i) ==
    IF i <= Len(s) /\ is_ascii_digit(s[i]) THEN DigitsEnd(s, i + 1) ELSE i

read_number(s, i) ==
    LET j == DigitsEnd(s, i)
        parsed == parse_u64(SubSeq(s, i, j - 1))
    IN  IF parsed.ok THEN Scanned(Number(parsed.value), j) ELSE Panicked(j)

RECURSIVE QuoteEnd(_, _, _)
\* the index of the first quote character at or after i, Len(s) + 1 if none
QuoteEnd(s, i, quote) ==
    IF i <= Len(s) /\ s[i] # quote THEN QuoteEnd(s, i + 1, quote) ELSE i

read_string(s, i) ==
    LET quote == s[i]
        j == QuoteEnd(s, i + 1, quote)
    IN  IF j <= Len(s) THEN Scanned(String(Concat(SubSeq(s, i + 1, j - 1))), j + 1)
        ELSE Scanned(Invalid(quote), j)

RECURSIVE WordEnd(_, _)
\* the cursor after the maximal run of letters, digits and underscores
WordEnd(s, i) ==
    IF i <= Len(s) /\ (is_ascii_alphanumeric(s[i]) \/ s[i] = "_")
    THEN WordEnd(s, i + 1) ELSE i

KeywordTable ==
    <<  <<"SELECT", "Select">>, <<"FROM", "From">>, <<"WHERE", "Where">>,
        <<"CREATE", "Create">>, <<"TABLE", "Table">>, <<"ORDER", "Order">>,
        <<"BY", "By">>, <<"ASC", "Asc">>, <<"DESC", "Desc">>, <<"AND", "And">>,
        <<"OR", "Or">>, <<"NOT", "Not">>, <<"TRUE", "True">>, <<"FALSE", "False">>,
        <<"PRIMARY", "Primary">>, <<"KEY", "Key">>, <<"CHECK", "Check">>,
        <<"INT", "Int">>, <<"BOOL", "Bool">>, <<"VARCHAR", "Varchar">>,
        <<"NULL", "Null">>  >>

read_word(s, i) ==
    LET j == WordEnd(s, i)
        word == SubSeq(s, i, j - 1)
        upper == to_uppercase(word)
        hits == {n \in 1..Len(KeywordTable) : KeywordTable[n][1] = upper}
    IN  IF hits # {}
        THEN Scanned(Keyword(KeywordTable[CHOOSE n \in hits : TRUE][2]), j)
        ELSE Scanned(Identifier(Concat(word)), j)

SingleCharTokens ==
    <<  <<"+", Plus>>, <<"-", Minus>>, <<"*", Star>>, <<"/", Divide>>,
        <<"(", LeftParentheses>>, <<")", RightParentheses>>, <<",", Comma>>,
        <<";", Semicolon>>, <<"=", Equal>>  >>

RECURSIVE next_token(_, _)
next_token(s, i) ==
    IF i > Len(s) THEN Scanned(Eof, i)
    ELSE LET ch == s[i]
             single == {n \in 1..Len(SingleCharTokens) : SingleCharTokens[n][1] = ch}
         IN  IF is_whitespace(ch) THEN next_token(s, i + 1)
             ELSE IF single # {}
             THEN consume_single(s, i, SingleCharTokens[CHOOSE n \in single : TRUE][2])
             ELSE IF ch = ">"
             THEN IF consume_if(s, i + 1, "=") THEN Scanned(GreaterThanOrEqual, i + 2)
                  ELSE Scanned(GreaterThan, i + 1)
             ELSE IF ch = "<"
             THEN IF consume_if(s, i + 1, "=") THEN Scanned(LessThanOrEqual, i + 2)
                  ELSE Scanned(LessThan, i + 1)
             ELSE IF ch = "!"
             THEN IF consume_if(s, i + 1, "=") THEN Scanned(NotEqual, i + 2)
                  ELSE Scanned(Invalid("!"), i + 1)
             ELSE IF ch \in {"\"", "'"} THEN read_string(s, i)
             ELSE IF is_ascii_digit(ch) THEN read_number(s, i)
             ELSE IF is_ascii_alphabetic(ch) \/ ch = "_" THEN read_word(s, i)
             ELSE Scanned(Invalid(ch), i + 1)

RECURSIVE collect(_, _, _)
\* Tokenizer::new(text).collect(): the tokens up to, not including, Eof
collect(s, i, acc) ==
    LET t == next_token(s, i)
    IN  IF t.panic THEN [ok |-> FALSE, tokens |-> acc]
        ELSE IF t.tok = Eof THEN [ok |-> TRUE, tokens |-> acc]
        ELSE collect(s, t.i, Append(acc, t.tok))

tokenize(s) == collect(s, 1, <<>>)

(***************************************************************************)
(* The syntax tree (crate::statement, as constructed in parser.rs).        *)
(***************************************************************************)
ExprNumber(n) == [e |-> "Number", v |-> n]

ExprIdentifier(s) == [e |-> "Identifier", v |-> s]

ExprString(s) == [e |-> "String", v |-> s]

ExprBool(b) == [e |-> "Bool", v |-> b]

UnaryOperation(operand, operator) ==
    [e |-> "UnaryOperation", operand |-> operand, operator |-> operator]

BinaryOperation(left_operand, operator, right_operand) ==
    [e |-> "BinaryOperation", left_operand |-> left_operand,
     operator |-> operator, right_operand |-> right_operand]

None == [some |-> FALSE]

Some(x) == [some |-> TRUE, value |-> x]

Select(columns, from, where, orderby) ==
    [stmt |-> "Select", columns |-> columns, from |-> from,
     where |-> where, orderby |-> orderby]

CreateTable(table_name, column_list) ==
    [stmt |-> "CreateTable", table_name |-> table_name, column_list |-> column_list]

TableColumn(column_name, column_type, constraints) ==
    [column_name |-> column_name, column_type |-> column_type,
     constraints |-> constraints]

DBInt == [t |-> "Int", len |-> ""]

DBBool == [t |-> "Bool", len |-> ""]

DBVarchar(len) == [t |-> "Varchar", len |-> len]

PrimaryKey == [c |-> "PrimaryKey"]

NotNull == [c |-> "NotNull"]

Check(expr) == [c |-> "Check", expr |-> expr]

Ok(stmt) == [ok |-> TRUE, stmt |-> stmt]

\* format!("Expected {expected}, found {found:?}")
Err(expected, found) == [ok |-> FALSE, expected |-> expected, found |-> found]

NoResult == [ok |-> FALSE, expected |-> "", found |-> Eof]

(***************************************************************************)
(* Binding powers.                                                         *)
(***************************************************************************)
Comparisons ==
    {GreaterThan, LessThan, Equal, NotEqual, GreaterThanOrEqual, LessThanOrEqual}

\* a variant with the conventional order, AND binding tighter than OR
infix_precedence_and_above_or(tok) ==
    IF tok \in {Plus, Minus} THEN 25
    ELSE IF tok \in {Star, Divide} THEN 30
    ELSE IF tok \in Comparisons THEN 20
    ELSE IF tok = Keyword("Or") THEN 10
    ELSE IF tok = Keyword("And") THEN 15
    ELSE IF tok \in {Keyword("Asc"), Keyword("Desc")} THEN 5
    ELSE 0

infix_precedence(tok) ==
    IF tok \in {Plus, Minus} THEN 25
    ELSE IF tok \in {Star, Divide} THEN 30
    ELSE IF tok \in Comparisons THEN 20
    ELSE IF tok = Keyword("Or") THEN 15
    ELSE IF tok = Keyword("And") THEN 10
    ELSE IF tok \in {Keyword("Asc"), Keyword("Desc")} THEN 5
    ELSE 0

\* the threshold parse_expression passes down for the operand of a prefix operator
PrefixOperandPrec == 100

\* the threshold parse_expression passes down for the right operand of tok
RightOperandPrec(tok) ==
    IF tok \in {Plus, Minus} THEN 25
    ELSE IF tok \in {Star, Divide} THEN 30
    ELSE IF tok = Keyword("And") THEN 10
    ELSE IF tok = Keyword("Or") THEN 15
    ELSE 20

\* a variant that goes on at equal binding power
LoopBreaks_strict(tok, min_prec) == infix_precedence(tok) < min_prec

\* the loop of parse_expression stops in front of tok
LoopBreaks(tok, min_prec) == infix_precedence(tok) <= min_prec

BinaryOperatorOf(tok) ==
    IF tok = Plus THEN "Plus"
    ELSE IF tok = Minus THEN "Minus"
    ELSE IF tok = Star THEN "Multiply"
    ELSE IF tok = Divide THEN "Divide"
    ELSE IF tok = Keyword("And") THEN "And"
    ELSE IF tok = Keyword("Or") THEN "Or"
    ELSE tok.k

PrefixOperatorOf(tok) ==
    IF tok = Minus THEN "Minus" ELSE IF tok = Plus THEN "Plus" ELSE "Not"

PostfixOperatorOf(tok) == tok.v

(***************************************************************************)
(* Resource limits of the process: the depth of the call stack and the     *)
(* number of boxed expression nodes that fit in memory.  Exceeding either  *)
(* aborts the process (stack overflow, allocation failure).                *)
(***************************************************************************)
StackLimit == 12

HeapLimit == 16

\* the read loop is followed while the buffer holds at most this many lines
MaxLines == 2

(***************************************************************************)
(* State.                                                                  *)
(***************************************************************************)
VARIABLES
    buffer,   \* main: the text accumulated so far
    tokens,   \* Parser.tokens
    pos,      \* Parser.pos
    stack,    \* the active calls of parse_select / parse_create_table /
              \* parse_expression, innermost last, each with its locals
    phase,    \* "idle": no parser exists; "parsing": inside parse_statement;
              \* "done": parse_statement returned; "aborted": the process
              \* died; "exited": main left its loop
    result,   \* the Result parse_statement returned
    fault,    \* why the process aborted
    op,       \* the cursor operation of the last parser step
    seen,     \* the token that operation read
    boxes     \* Box::new allocations made by the running parse

vars == <<buffer, tokens, pos, stack, phase, result, fault, op, seen, boxes>>

(***************************************************************************)
(* The cursor: peek, next and expect.  pos is zero-based as in the code.   *)
(***************************************************************************)
peek_at(toks, p) == toks[p + 1]

\* a variant without the clamp at the last index
next_pos_unclamped(toks, p) == p + 1

\* pos after self.next()
next_pos(toks, p) == IF p < Len(toks) - 1 THEN p + 1 ELSE p

\* self.expect(expected): Ok and the cursor moved by next, or Err and the cursor left alone
expect(toks, p, expected) ==
    IF peek_at(toks, p) = expected
    THEN [ok |-> TRUE, pos |-> next_pos(toks, p)]
    ELSE [ok |-> FALSE, pos |-> p]

peek == peek_at(tokens, pos)

advanced == next_pos(tokens, pos)

(***************************************************************************)
(* Call frames.                                                            *)
(***************************************************************************)
NoExpr == [e |-> "none"]

ExprFrame(min_prec) ==
    [fn |-> "parse_expression", pc |-> "prefix", min_prec |-> min_prec,
     left |-> NoExpr, operator |-> ""]

SelectFrame ==
    [fn |-> "parse_select", pc |-> "columns", columns |-> <<>>, table_name |-> "",
     where_clause |-> None, orderby |-> <<>>]

CreateFrame ==
    [fn |-> "parse_create_table", pc |-> "table", table_name |-> "", columns |-> <<>>,
     col_name |-> "", col_type |-> DBInt, len |-> "", constraints |-> <<>>,
     expr |-> NoExpr]

\* a variant that inserts at the front
push_front(vec, x) == <<x>> \o vec

\* Vec::push
push(vec, x) == Append(vec, x)

Top == stack[Len(stack)]

SetTop(f) == [stack EXCEPT ![Len(stack)] = f]

Call(f, callee) == Append(SetTop(f), callee)

\* parse_expression returns Ok(value) to the call below it on the stack st:
\* the caller's statement that holds the call completes
Resume(st, value) ==
    LET f == st[Len(st)]
        g == IF f.fn = "parse_expression"
             THEN IF f.pc = "paren" THEN [f EXCEPT !.left = value, !.pc = "close_paren"]
                  ELSE IF f.pc = "unary"
                  THEN [f EXCEPT !.left = UnaryOperation(value, f.operator), !.pc = "loop"]
                  ELSE [f EXCEPT !.left = BinaryOperation(f.left, f.operator, value),
                                 !.pc = "loop"]
             ELSE IF f.fn = "parse_select"
             THEN IF f.pc = "columns"
                  THEN [f EXCEPT !.columns = push(f.columns, value), !.pc = "columns_sep"]
                  ELSE IF f.pc = "where_expr"
                  THEN [f EXCEPT !.where_clause = Some(value), !.pc = "order"]
                  ELSE [f EXCEPT !.orderby = push(f.orderby, value), !.pc = "orderby_sep"]
             ELSE [f EXCEPT !.expr = value, !.pc = "check_close"]
    IN  [st EXCEPT ![Len(st)] = g]

\* the Box::new calls made when the call below completes its statement
ResumeBoxes(st) ==
    LET f == st[Len(st)]
    IN  IF f.fn = "parse_expression" /\ f.pc = "unary" THEN 1
        ELSE IF f.fn = "parse_expression" /\ f.pc = "binary" THEN 2
        ELSE 0

(***************************************************************************)
(* Outcomes of one parser step.                                            *)
(***************************************************************************)
Abort(reason) ==
    /\ phase' = "aborted"
    /\ fault' = reason
    /\ UNCHANGED <<buffer, tokens, pos, stack, result, op, seen, boxes>>

\* the parse goes on with the cursor at p and the call stack st
Step(p, st, o, b) ==
    IF Len(st) > StackLimit THEN Abort("stack overflow")
    ELSE IF b > HeapLimit THEN Abort("out of memory")
    ELSE /\ pos' = p
         /\ stack' = st
         /\ op' = o
         /\ seen' = peek_at(tokens, pos)
         /\ boxes' = b
         /\ UNCHANGED <<buffer, tokens, phase, result, fault>>

\* parse_statement returns r (every caller on the stack forwards it with `?`)
Return(p, r, o) ==
    /\ pos' = p
    /\ stack' = <<>>
    /\ result' = r
    /\ phase' = "done"
    /\ op' = o
    /\ seen' = peek_at(tokens, pos)
    /\ UNCHANGED <<buffer, tokens, fault, boxes>>

\* parse_expression returns Ok(value) without moving the cursor
ReturnExpr(p, value, o) ==
    LET st == SubSeq(stack, 1, Len(stack) - 1)
    IN  Step(p, Resume(st, value), o, boxes + ResumeBoxes(st))

(***************************************************************************)
(* Parser::parse_statement: the dispatch on the first token.               *)
(***************************************************************************)
parse_statement ==
    /\ phase = "parsing"
    /\ stack = <<>>
    /\ IF tokens = <<>> THEN Abort("index out of bounds")
       ELSE IF peek = Keyword("Select")
       THEN Step(advanced, <<SelectFrame, ExprFrame(0)>>, "next", boxes)
       ELSE IF peek = Keyword("Create")
       THEN Step(advanced, <<CreateFrame>>, "next", boxes)
       ELSE Return(pos, Err("SELECT or CREATE", peek), "peek")

(***************************************************************************)
(* Parser::parse_expression: one step of the innermost call.               *)
(***************************************************************************)
IsLiteral(tok) ==
    \/ tok.k \in {"Number", "Identifier", "String"}
    \/ tok \in {Keyword("True"), Keyword("False")}

Literal(tok) ==
    IF tok.k = "Number" THEN ExprNumber(tok.v)
    ELSE IF tok.k = "Identifier" THEN ExprIdentifier(tok.v)
    ELSE IF tok.k = "String" THEN ExprString(tok.v)
    ELSE ExprBool(tok = Keyword("True"))

IsBinaryOperator(tok) ==
    tok \in {Plus, Minus, Star, Divide, Keyword("And"), Keyword("Or")} \cup Comparisons

parse_expression ==
    /\ phase = "parsing"
    /\ stack # <<>>
    /\ Top.fn = "parse_expression"
    /\ LET f == Top
           tok == peek
       IN  CASE f.pc = "prefix" ->
                \* let mut left = match self.next() { ... }
                IF IsLiteral(tok)
                THEN Step(advanced, SetTop([f EXCEPT !.left = Literal(tok), !.pc = "loop"]),
                          "next", boxes)
                ELSE IF tok = LeftParentheses
                THEN Step(advanced, Call([f EXCEPT !.pc = "paren"], ExprFrame(0)),
                          "next", boxes)
                ELSE IF tok \in {Minus, Plus, Keyword("Not")}
                THEN Step(advanced,
                          Call([f EXCEPT !.pc = "unary", !.operator = PrefixOperatorOf(tok)],
                               ExprFrame(PrefixOperandPrec)),
                          "next", boxes)
                ELSE Return(advanced, Err("prefix token", tok), "next")
             [] f.pc = "close_paren" ->
                \* self.expect(&Token::RightParentheses)?
                LET e == expect(tokens, pos, RightParentheses)
                IN  IF e.ok THEN Step(e.pos, SetTop([f EXCEPT !.pc = "loop"]), "expect_ok", boxes)
                    ELSE Return(e.pos, Err("RightParentheses", tok), "expect_err")
             [] f.pc = "loop" ->
                IF LoopBreaks(tok, f.min_prec) THEN ReturnExpr(pos, f.left, "peek")
                ELSE IF tok \in {Keyword("Asc"), Keyword("Desc")}
                THEN Step(advanced,
                          SetTop([f EXCEPT !.left = UnaryOperation(f.left, PostfixOperatorOf(tok))]),
                          "next", boxes + 1)
                ELSE IF IsBinaryOperator(tok)
                THEN Step(advanced,
                          Call([f EXCEPT !.pc = "binary", !.operator = BinaryOperatorOf(tok)],
                               ExprFrame(RightOperandPrec(tok))),
                          "next", boxes)
                ELSE ReturnExpr(advanced, f.left, "next")

(***************************************************************************)
(* Parser::parse_select: one step of the call.                             *)
(***************************************************************************)
\* a variant that drops the WHERE clause from the statement
SelectEnd_without_where(f) ==
    LET e == expect(tokens, pos, Semicolon)
    IN  IF e.ok
        THEN Return(e.pos, Ok(Select(f.columns, f.table_name, None, f.orderby)), "expect_ok")
        ELSE Return(e.pos, Err("Semicolon", peek), "expect_err")

\* self.expect(&Token::Semicolon)?; Ok(Statement::Select { .. })
SelectEnd(f) ==
    LET e == expect(tokens, pos, Semicolon)
    IN  IF e.ok
        THEN Return(e.pos, Ok(Select(f.columns, f.table_name, f.where_clause, f.orderby)),
                    "expect_ok")
        ELSE Return(e.pos, Err("Semicolon", peek), "expect_err")

\* the optional ORDER BY, then the terminator
SelectOrder(f) ==
    IF peek = Keyword("Order")
    THEN Step(advanced, SetTop([f EXCEPT !.pc = "by"]), "next", boxes)
    ELSE SelectEnd(f)

parse_select ==
    /\ phase = "parsing"
    /\ stack # <<>>
    /\ Top.fn = "parse_select"
    /\ LET f == Top
           tok == peek
       IN  CASE f.pc = "columns_sep" ->
                IF tok = Comma
                THEN Step(advanced, Call([f EXCEPT !.pc = "columns"], ExprFrame(0)),
                          "next", boxes)
                ELSE LET e == expect(tokens, pos, Keyword("From"))
                     IN  IF e.ok
                         THEN Step(e.pos, SetTop([f EXCEPT !.pc = "table_name"]),
                                   "expect_ok", boxes)
                         ELSE Return(e.pos, Err("Keyword(From)", tok), "expect_err")
             [] f.pc = "table_name" ->
                IF tok.k = "Identifier"
                THEN Step(advanced, SetTop([f EXCEPT !.table_name = tok.v, !.pc = "where"]),
                          "next", boxes)
                ELSE Return(advanced, Err("table name", tok), "next")
             [] f.pc = "where" ->
                IF tok = Keyword("Where")
                THEN Step(advanced, Call([f EXCEPT !.pc = "where_expr"], ExprFrame(0)),
                          "next", boxes)
                ELSE SelectOrder(f)
             [] f.pc = "order" -> SelectOrder(f)
             [] f.pc = "by" ->
                LET e == expect(tokens, pos, Keyword("By"))
                IN  IF e.ok
                    THEN Step(e.pos, Call([f EXCEPT !.pc = "orderby"], ExprFrame(0)),
                              "expect_ok", boxes)
                    ELSE Return(e.pos, Err("Keyword(By)", tok), "expect_err")
             [] f.pc = "orderby_sep" ->
                IF tok = Comma
                THEN Step(advanced, Call([f EXCEPT !.pc = "orderby"], ExprFrame(0)),
                          "next", boxes)
                ELSE SelectEnd(f)

(***************************************************************************)
(* Parser::parse_create_table: one step of the call.                       *)
(***************************************************************************)
\* a failed self.expect(..)? or a `return Err(..)` after a peek
Expected(what) == Return(pos, Err(what, peek), "expect_err")

\* columns.push(TableColumn { .. }), then the match on ',' or ')'
ColumnEnd(f) ==
    LET col == TableColumn(f.col_name, f.col_type, f.constraints)
        g == [f EXCEPT !.columns = push(f.columns, col), !.constraints = <<>>]
    IN  IF peek = Comma
        THEN Step(advanced, SetTop([g EXCEPT !.pc = "column"]), "next", boxes)
        ELSE IF peek = RightParentheses
        THEN Step(advanced, SetTop([g EXCEPT !.pc = "end"]), "next", boxes)
        ELSE Return(pos, Err("',' or ')'", peek), "peek")

parse_create_table ==
    /\ phase = "parsing"
    /\ stack # <<>>
    /\ Top.fn = "parse_create_table"
    /\ LET f == Top
           tok == peek
           e(expected) == expect(tokens, pos, expected)
       IN  CASE f.pc = "table" ->
                IF e(Keyword("Table")).ok
                THEN Step(e(Keyword("Table")).pos, SetTop([f EXCEPT !.pc = "name"]), "expect_ok", boxes)
                ELSE Expected("Keyword(Table)")
             [] f.pc = "name" ->
                IF tok.k = "Identifier"
                THEN Step(advanced, SetTop([f EXCEPT !.table_name = tok.v, !.pc = "open"]),
                          "next", boxes)
                ELSE Return(advanced, Err("table name", tok), "next")
             [] f.pc = "open" ->
                IF e(LeftParentheses).ok
                THEN Step(e(LeftParentheses).pos, SetTop([f EXCEPT !.pc = "column"]), "expect_ok", boxes)
                ELSE Expected("LeftParentheses")
             [] f.pc = "column" ->
                IF tok = RightParentheses
                THEN Step(advanced, SetTop([f EXCEPT !.pc = "end"]), "next", boxes)
                ELSE IF tok.k = "Identifier"
                THEN Step(advanced, SetTop([f EXCEPT !.col_name = tok.v, !.pc = "type"]),
                          "next", boxes)
                ELSE Return(advanced, Err("column name", tok), "next")
             [] f.pc = "type" ->
                IF tok = Keyword("Int")
                THEN Step(advanced, SetTop([f EXCEPT !.col_type = DBInt, !.pc = "constraints"]),
                          "next", boxes)
                ELSE IF tok = Keyword("Bool")
                THEN Step(advanced, SetTop([f EXCEPT !.col_type = DBBool, !.pc = "constraints"]),
                          "next", boxes)
                ELSE IF tok = Keyword("Varchar")
                THEN Step(advanced, SetTop([f EXCEPT !.pc = "varchar_open"]), "next", boxes)
                ELSE Return(pos, Err("type", tok), "peek")
             [] f.pc = "varchar_open" ->
                IF e(LeftParentheses).ok
                THEN Step(e(LeftParentheses).pos, SetTop([f EXCEPT !.pc = "varchar_len"]), "expect_ok", boxes)
                ELSE Expected("LeftParentheses")
             [] f.pc = "varchar_len" ->
                IF tok.k = "Number"
                THEN Step(advanced, SetTop([f EXCEPT !.len = tok.v, !.pc = "varchar_close"]),
                          "next", boxes)
                ELSE Return(advanced, Err("VARCHAR length", tok), "next")
             [] f.pc = "varchar_close" ->
                IF e(RightParentheses).ok
                THEN Step(e(RightParentheses).pos,
                          SetTop([f EXCEPT !.col_type = DBVarchar(f.len), !.pc = "constraints"]),
                          "expect_ok", boxes)
                ELSE Expected("RightParentheses")
             [] f.pc = "constraints" ->
                IF tok = Keyword("Primary")
                THEN Step(advanced, SetTop([f EXCEPT !.pc = "key"]), "next", boxes)
                ELSE IF tok = Keyword("Not")
                THEN Step(advanced, SetTop([f EXCEPT !.pc = "null"]), "next", boxes)
                ELSE IF tok = Keyword("Check")
                THEN Step(advanced, SetTop([f EXCEPT !.pc = "check_open"]), "next", boxes)
                ELSE ColumnEnd(f)
             [] f.pc = "key" ->
                IF e(Keyword("Key")).ok
                THEN Step(e(Keyword("Key")).pos,
                          SetTop([f EXCEPT !.constraints = push(f.constraints, PrimaryKey),
                                           !.pc = "constraints"]),
                          "expect_ok", boxes)
                ELSE Expected("Keyword(Key)")
             [] f.pc = "null" ->
                IF e(Keyword("Null")).ok
                THEN Step(e(Keyword("Null")).pos,
                          SetTop([f EXCEPT !.constraints = push(f.constraints, NotNull),
                                           !.pc = "constraints"]),
                          "expect_ok", boxes)
                ELSE Expected("Keyword(Null)")
             [] f.pc = "check_open" ->
                IF e(LeftParentheses).ok
                THEN Step(e(LeftParentheses).pos, Call([f EXCEPT !.pc = "check_expr"], ExprFrame(0)),
                          "expect_ok", boxes)
                ELSE Expected("LeftParentheses")
             [] f.pc = "check_close" ->
                IF e(RightParentheses).ok
                THEN Step(e(RightParentheses).pos,
                          SetTop([f EXCEPT !.constraints = push(f.constraints, Check(f.expr)),
                                           !.pc = "constraints"]),
                          "expect_ok", boxes)
                ELSE Expected("RightParentheses")
             [] f.pc = "end" ->
                IF e(Semicolon).ok
                THEN Return(e(Semicolon).pos, Ok(CreateTable(f.table_name, f.columns)), "expect_ok")
                ELSE Expected("Semicolon")

(***************************************************************************)
(* The lines the read loop of main is fed, each as read_line returns it.   *)
(***************************************************************************)
\* SELECT a, b FROM t;
LineSelect ==
    << "S", "E", "L", "E", "C", "T", " ", "a", ",", " ", "b", " ", "F", "R", "O", "M",
       " ", "t", ";", "\n" >>

\* select x from t  (the statement goes on)
LineSelectOpen ==
    << "s", "e", "l", "e", "c", "t", " ", "x", " ", "f", "r", "o", "m", " ", "t",
       "\n" >>

\* Where x > 5 AND x < 10;
LineWhere ==
    << "W", "h", "e", "r", "e", " ", "x", " ", ">", " ", "5", " ", "A", "N", "D", " ",
       "x", " ", "<", " ", "1", "0", ";", "\n" >>

\* CREATE TABLE t (id INT PRIMARY KEY, name VARCHAR(020) NOT NULL);
LineCreate ==
    << "C", "R", "E", "A", "T", "E", " ", "T", "A", "B", "L", "E", " ", "t", " ", "(",
       "i", "d", " ", "I", "N", "T", " ", "P", "R", "I", "M", "A", "R", "Y", " ", "K",
       "E", "Y", ",", " ", "n", "a", "m", "e", " ", "V", "A", "R", "C", "H", "A", "R",
       "(", "0", "2", "0", ")", " ", "N", "O", "T", " ", "N", "U", "L", "L", ")", ";",
       "\n" >>

\* create table t (a bool,);
LineCreateComma ==
    << "c", "r", "e", "a", "t", "e", " ", "t", "a", "b", "l", "e", " ", "t", " ", "(",
       "a", " ", "b", "o", "o", "l", ",", ")", ";", "\n" >>

\* SELECT 18446744073709551615 FROM t;   (2^64 - 1)
LineU64Max ==
    << "S", "E", "L", "E", "C", "T", " ", "1", "8", "4", "4", "6", "7", "4", "4", "0",
       "7", "3", "7", "0", "9", "5", "5", "1", "6", "1", "5", " ", "F", "R", "O", "M",
       " ", "t", ";", "\n" >>

\* SELECT 18446744073709551616 FROM t;   (2^64)
LineU64Overflow ==
    << "S", "E", "L", "E", "C", "T", " ", "1", "8", "4", "4", "6", "7", "4", "4", "0",
       "7", "3", "7", "0", "9", "5", "5", "1", "6", "1", "6", " ", "F", "R", "O", "M",
       " ", "t", ";", "\n" >>

\* SELECT a FROM t WHERE a = 100000000000000000000;   (10^20)
LineLongOverflow ==
    << "S", "E", "L", "E", "C", "T", " ", "a", " ", "F", "R", "O", "M", " ", "t", " ",
       "W", "H", "E", "R", "E", " ", "a", " ", "=", " ", "1", "0", "0", "0", "0", "0",
       "0", "0", "0", "0", "0", "0", "0", "0", "0", "0", "0", "0", "0", "0", "0", ";",
       "\n" >>

\* SELECT a FROM t; @;
LineTrailingInvalid ==
    << "S", "E", "L", "E", "C", "T", " ", "a", " ", "F", "R", "O", "M", " ", "t", ";",
       " ", "@", ";", "\n" >>

\* SELECT a # b FROM t;
LineInvalid ==
    << "S", "E", "L", "E", "C", "T", " ", "a", " ", "#", " ", "b", " ", "F", "R", "O",
       "M", " ", "t", ";", "\n" >>

\* SELECT a FROM t WHERE a ! b;
LineBang ==
    << "S", "E", "L", "E", "C", "T", " ", "a", " ", "F", "R", "O", "M", " ", "t", " ",
       "W", "H", "E", "R", "E", " ", "a", " ", "!", " ", "b", ";", "\n" >>

\* SELECT a FROM t WHERE a != b;
LineBangEqual ==
    << "S", "E", "L", "E", "C", "T", " ", "a", " ", "F", "R", "O", "M", " ", "t", " ",
       "W", "H", "E", "R", "E", " ", "a", " ", "!", "=", " ", "b", ";", "\n" >>

\* SELECT a FROM t WHERE a <> b;
LineLessGreater ==
    << "S", "E", "L", "E", "C", "T", " ", "a", " ", "F", "R", "O", "M", " ", "t", " ",
       "W", "H", "E", "R", "E", " ", "a", " ", "<", ">", " ", "b", ";", "\n" >>

\* SELECT a FROM t WHERE a >= 1 OR a <= 2 ORDER BY a DESC;
LineCompare ==
    << "S", "E", "L", "E", "C", "T", " ", "a", " ", "F", "R", "O", "M", " ", "t", " ",
       "W", "H", "E", "R", "E", " ", "a", " ", ">", "=", " ", "1", " ", "O", "R", " ",
       "a", " ", "<", "=", " ", "2", " ", "O", "R", "D", "E", "R", " ", "B", "Y", " ",
       "a", " ", "D", "E", "S", "C", ";", "\n" >>

\* SELECT 'it', "x y" FROM t;
LineString ==
    << "S", "E", "L", "E", "C", "T", " ", "'", "i", "t", "'", ",", " ", "\"", "x", " ",
       "y", "\"", " ", "F", "R", "O", "M", " ", "t", ";", "\n" >>

\* SELECT 'abc FROM t;   (the literal never closes)
LineUnterminated ==
    << "S", "E", "L", "E", "C", "T", " ", "'", "a", "b", "c", " ", "F", "R", "O", "M",
       " ", "t", ";", "\n" >>

\* an empty line
LineBlank ==
    << "\n" >>

\* end of input: read_line reads nothing
LineEndOfInput ==
    << >>

Lines ==
    {LineSelect, LineSelectOpen, LineWhere, LineCreate,
     LineCreateComma, LineU64Max, LineU64Overflow, LineLongOverflow,
     LineTrailingInvalid, LineInvalid, LineBang, LineBangEqual,
     LineLessGreater, LineCompare, LineString, LineUnterminated,
     LineBlank, LineEndOfInput}

(***************************************************************************)
(* Token sequences handed to Parser::new directly.                         *)
(***************************************************************************)
\* the lists of the generated SELECT statements have at most this many items
MaxList == 2

\* the generated CREATE TABLE statements have at most this many columns
MaxColumns == 2

\* and their first column has at most this many constraints
MaxConstraints == 2

\* every token sequence of at most this length is tried
MaxArbitrary == 2

kw(word) == Keyword(word)

RECURSIVE JoinWith(_, _)
\* the sequences of ss concatenated, with sep between consecutive ones
JoinWith(ss, sep) ==
    IF ss = <<>> THEN <<>>
    ELSE IF Len(ss) = 1 THEN ss[1]
    ELSE ss[1] \o <<sep>> \o JoinWith(Tail(ss), sep)

RECURSIVE Flatten(_)
\* the sequences of ss concatenated
Flatten(ss) == IF ss = <<>> THEN <<>> ELSE ss[1] \o Flatten(Tail(ss))

SeqsOf(S, lo, hi) == UNION {[1..n -> S] : n \in lo..hi}

\* a piece of statement text, as tokens, with the tree it is written to mean
Term(toks, tree) == [toks |-> toks, tree |-> tree]

Toks(terms) == [i \in 1..Len(terms) |-> terms[i].toks]

Trees(terms) == [i \in 1..Len(terms) |-> terms[i].tree]

ProjectionTerms ==
    {Term(<<Identifier("a")>>, ExprIdentifier("a")),
     Term(<<Identifier("b")>>, ExprIdentifier("b")),
     Term(<<Number("1"), Plus, Number("2")>>,
          BinaryOperation(ExprNumber("1"), "Plus", ExprNumber("2")))}

WhereTerms ==
    {Term(<<>>, None),
     Term(<<kw("Where"), kw("True")>>, Some(ExprBool(TRUE))),
     Term(<<kw("Where"), Identifier("x"), GreaterThan, Number("5")>>,
          Some(BinaryOperation(ExprIdentifier("x"), "GreaterThan", ExprNumber("5"))))}

OrderTerms ==
    {Term(<<Identifier("a")>>, ExprIdentifier("a")),
     Term(<<Identifier("b"), kw("Desc")>>, UnaryOperation(ExprIdentifier("b"), "Desc"))}

SelectCases ==
    [columns : SeqsOf(ProjectionTerms, 1, MaxList), where : WhereTerms,
     orderby : SeqsOf(OrderTerms, 0, MaxList)]

SelectTokens(c) ==
    <<kw("Select")>> \o JoinWith(Toks(c.columns), Comma)
        \o <<kw("From"), Identifier("t")>> \o c.where.toks
        \o (IF c.orderby = <<>> THEN <<>>
            ELSE <<kw("Order"), kw("By")>> \o JoinWith(Toks(c.orderby), Comma))
        \o <<Semicolon>>

SelectMeaning(c) == Select(Trees(c.columns), "t", c.where.tree, Trees(c.orderby))

ConstraintTerms ==
    {Term(<<kw("Primary"), kw("Key")>>, PrimaryKey),
     Term(<<kw("Not"), kw("Null")>>, NotNull),
     Term(<<kw("Check"), LeftParentheses, Identifier("x"), GreaterThan, Number("0"),
            RightParentheses>>,
          Check(BinaryOperation(ExprIdentifier("x"), "GreaterThan", ExprNumber("0"))))}

TypeTerms ==
    {Term(<<kw("Int")>>, DBInt),
     Term(<<kw("Bool")>>, DBBool),
     Term(<<kw("Varchar"), LeftParentheses, Number("20"), RightParentheses>>,
          DBVarchar("20"))}

\* a column without constraints
PlainColumns == [type : TypeTerms, constraints : {<<>>}]

\* an INT column with a list of constraints
ConstrainedColumns ==
    [type : {Term(<<kw("Int")>>, DBInt)},
     constraints : SeqsOf(ConstraintTerms, 1, MaxConstraints)]

\* the columns that follow the first
LaterColumns ==
    PlainColumns
        \cup [type : {Term(<<kw("Varchar"), LeftParentheses, Number("20"), RightParentheses>>,
                           DBVarchar("20"))},
              constraints : {<<Term(<<kw("Not"), kw("Null")>>, NotNull)>>}]

ColumnLists ==
    {<<>>} \cup {<<first>> \o rest : first \in PlainColumns \cup ConstrainedColumns,
                                     rest \in SeqsOf(LaterColumns, 0, MaxColumns - 1)}

ColumnNames == <<"id", "name", "c3", "c4">>

CreateCases == [columns : ColumnLists, trailing_comma : BOOLEAN]

ColumnTokens(col, n) ==
    <<Identifier(ColumnNames[n])>> \o col.type.toks \o Flatten(Toks(col.constraints))

CreateTokens(c) ==
    <<kw("Create"), kw("Table"), Identifier("t"), LeftParentheses>>
        \o JoinWith([n \in 1..Len(c.columns) |-> ColumnTokens(c.columns[n], n)], Comma)
        \o (IF c.trailing_comma THEN <<Comma>> ELSE <<>>)
        \o <<RightParentheses, Semicolon>>

CreateMeaning(c) ==
    CreateTable("t", [n \in 1..Len(c.columns) |->
                        TableColumn(ColumnNames[n], c.columns[n].type.tree,
                                    Trees(c.columns[n].constraints))])

\* operators between, before and after operands
InfixTokens == {Star, Divide, Plus, Minus, kw("Or"), kw("And")} \cup Comparisons

PrefixTokens == {Minus, Plus, kw("Not")}

PostfixTokens == {kw("Asc"), kw("Desc")}

\* SELECT a p 2 q c FROM t;
InfixCases == [p : InfixTokens, q : InfixTokens]

InfixTokensOf(c) ==
    <<kw("Select"), Identifier("a"), c.p, Number("2"), c.q, Identifier("c"),
      kw("From"), Identifier("t"), Semicolon>>

\* SELECT u a p 2 FROM t;
PrefixCases == [u : PrefixTokens, p : InfixTokens]

PrefixTokensOf(c) ==
    <<kw("Select"), c.u, Identifier("a"), c.p, Number("2"),
      kw("From"), Identifier("t"), Semicolon>>

\* SELECT a FROM t ORDER BY a p 2 s;
PostfixCases == [p : InfixTokens, s : PostfixTokens]

PostfixTokensOf(c) ==
    <<kw("Select"), Identifier("a"), kw("From"), Identifier("t"), kw("Order"), kw("By"),
      Identifier("a"), c.p, Number("2"), c.s, Semicolon>>

\* SELECT 1 + 2 * 3 FROM t;
Example123 ==
    <<kw("Select"), Number("1"), Plus, Number("2"), Star, Number("3"),
      kw("From"), Identifier("t"), Semicolon>>

\* SELECT NOT a AND b FROM t;
ExampleNotAnd ==
    <<kw("Select"), kw("Not"), Identifier("a"), kw("And"), Identifier("b"),
      kw("From"), Identifier("t"), Semicolon>>

\* SELECT x FROM t WHERE x > 5 AND x < 10;
ExampleRange ==
    <<kw("Select"), Identifier("x"), kw("From"), Identifier("t"), kw("Where"),
      Identifier("x"), GreaterThan, Number("5"), kw("And"),
      Identifier("x"), LessThan, Number("10"), Semicolon>>

\* SELECT (a + 2) * -c FROM t;
ExampleParentheses ==
    <<kw("Select"), LeftParentheses, Identifier("a"), Plus, Number("2"), RightParentheses,
      Star, Minus, Identifier("c"), kw("From"), Identifier("t"), Semicolon>>

\* SELECT a FROM t ORDER;
ExampleOrder == <<kw("Select"), Identifier("a"), kw("From"), Identifier("t"), kw("Order"), Semicolon>>

Examples == {Example123, ExampleNotAnd, ExampleRange, ExampleParentheses, ExampleOrder}

ExpressionInputs ==
    {InfixTokensOf(c) : c \in InfixCases} \cup {PrefixTokensOf(c) : c \in PrefixCases}
        \cup {PostfixTokensOf(c) : c \in PostfixCases} \cup Examples

\* the statements written by the grammar
SelectInputs == {SelectTokens(c) : c \in SelectCases}

CreateInputs == {CreateTokens(c) : c \in {d \in CreateCases : ~d.trailing_comma}}

TrailingCommaInputs == {CreateTokens(c) : c \in {d \in CreateCases : d.trailing_comma}}

WellFormed == SelectInputs \cup CreateInputs \cup ExpressionInputs

\* a statement cut short: every proper prefix, the empty one included
Truncated == UNION {{SubSeq(s, 1, n) : n \in 0..Len(s) - 1} : s \in WellFormed}

\* a well-formed statement without its final `;`
Unterminated == {SubSeq(s, 1, Len(s) - 1) : s \in WellFormed}

InsertAt(s, n, tok) == SubSeq(s, 1, n) \o <<tok>> \o SubSeq(s, n + 1, Len(s))

\* a statement with a token in between, in front or behind
WithInserted(base, tok) == UNION {{InsertAt(s, n, tok) : n \in 0..Len(s)} : s \in base}

Alphabet ==
    {kw(KeywordTable[n][2]) : n \in 1..Len(KeywordTable)}
        \cup {SingleCharTokens[n][2] : n \in 1..Len(SingleCharTokens)}
        \cup Comparisons
        \cup {Identifier("a"), Number("1"), String("s"), Invalid("@"), Eof}

Arbitrary == SeqsOf(Alphabet, 0, MaxArbitrary)

DirectInputs ==
    WellFormed \cup TrailingCommaInputs \cup Truncated
        \cup WithInserted(ExpressionInputs, Invalid("@"))
        \cup WithInserted(Examples, Semicolon)
        \cup Arbitrary

(***************************************************************************)
(* main: the read loop, and a caller that builds a Parser itself.          *)
(***************************************************************************)
\* str::trim(s).is_empty()
is_blank(s) == \A i \in 1..Len(s) : is_whitespace(s[i])

\* s.trim_end().ends_with(';')
ends_with_semicolon(s) ==
    \E i \in 1..Len(s) : s[i] = ";" /\ \A j \in i + 1..Len(s) : is_whitespace(s[j])

LineCount(s) == Cardinality({i \in 1..Len(s) : s[i] = "\n"})

NewParser(toks) ==
    /\ tokens' = toks
    /\ pos' = 0
    /\ stack' = <<>>
    /\ phase' = "parsing"
    /\ result' = NoResult
    /\ op' = "none"
    /\ seen' = Eof
    /\ boxes' = 0
    /\ UNCHANGED fault

\* one turn of the loop of main up to the call of parse_statement
main_read_line ==
    /\ phase = "idle"
    /\ \E line \in Lines :
          IF is_blank(line) /\ is_blank(buffer)
          THEN /\ phase' = "exited"
               /\ UNCHANGED <<buffer, tokens, pos, stack, result, fault, op, seen, boxes>>
          ELSE LET text == buffer \o line
               IN  IF ends_with_semicolon(text)
                   THEN LET t == tokenize(text)
                        IN  /\ buffer' = text
                            /\ IF t.ok THEN NewParser(t.tokens)
                               ELSE /\ phase' = "aborted"
                                    /\ fault' = "called unwrap on an Err value"
                                    /\ UNCHANGED <<tokens, pos, stack, result, op, seen, boxes>>
                   ELSE /\ LineCount(text) <= MaxLines
                        /\ buffer' = text
                        /\ UNCHANGED <<tokens, pos, stack, phase, result, fault, op, seen, boxes>>

\* stdin.read_line fails
main_read_error ==
    /\ phase = "idle"
    /\ phase' = "exited"
    /\ UNCHANGED <<buffer, tokens, pos, stack, result, fault, op, seen, boxes>>

\* the result is printed, the parser dropped and the buffer cleared
main_print ==
    /\ phase = "done"
    /\ buffer' = <<>>
    /\ tokens' = <<>>
    /\ pos' = 0
    /\ phase' = "idle"
    /\ result' = NoResult
    /\ op' = "none"
    /\ seen' = Eof
    /\ boxes' = 0
    /\ UNCHANGED <<stack, fault>>

\* Parser::new(tokens) called on a token sequence of the caller's own
Parser_new ==
    /\ phase = "idle"
    /\ buffer = <<>>
    /\ \E toks \in DirectInputs : NewParser(toks)
    /\ UNCHANGED buffer

Init ==
    /\ buffer = <<>>
    /\ tokens = <<>>
    /\ pos = 0
    /\ stack = <<>>
    /\ phase = "idle"
    /\ result = NoResult
    /\ fault = "none"
    /\ op = "none"
    /\ seen = Eof
    /\ boxes = 0

Next ==
    \/ main_read_line
    \/ main_read_error
    \/ main_print
    \/ Parser_new
    \/ parse_statement
    \/ parse_select
    \/ parse_create_table
    \/ parse_expression

Spec == Init /\ [][Next]_vars

TypeOK ==
    /\ phase \in {"idle", "parsing", "done", "aborted", "exited"}
    /\ pos \in Nat
    /\ op \in {"none", "peek", "next", "expect_ok", "expect_err"}

(***************************************************************************)
(* Properties.                                                             *)
(***************************************************************************)
Returned == phase = "done"

ReturnedOk == phase = "done" /\ result.ok

ReturnedErr == phase = "done" /\ ~result.ok

\* the parse ended, by a return or by the death of the process
Ended == phase \in {"done", "aborted"}

\* C1: parse_statement returns a Statement only after matching a Semicolon as
\* the terminator, and a SELECT or CREATE TABLE statement whose final `;` is
\* missing is answered with a syntax error.
C1_MissingTerminatorIsSyntaxError ==
    /\ ReturnedOk => op = "expect_ok" /\ seen = Semicolon
    /\ tokens \in Unterminated /\ Ended => ReturnedErr

\* C2: on every token sequence parse_statement completes and returns a
\* Statement or a syntax error: it never indexes out of range, never recurses
\* or loops until the stack or the heap is exhausted.
C2_ParseAlwaysReturns ==
    fault \notin {"index out of bounds", "stack overflow", "out of memory"}

IsSuffix(line, text) ==
    /\ Len(line) <= Len(text)
    /\ SubSeq(text, Len(text) - Len(line) + 1, Len(text)) = line

\* the submitted text holds a run of digits whose value exceeds 2^64 - 1
SubmittedOverflow ==
    /\ phase # "idle"
    /\ \E line \in {LineU64Overflow, LineLongOverflow} : IsSuffix(line, buffer)

\* C3: a run of digits beyond the unsigned 64-bit range gives a recoverable
\* parse error: the process is not aborted, the caller receives an error and
\* the read loop goes on.
C3_OverflowIsRecoverableError ==
    SubmittedOverflow => phase # "aborted" /\ (Returned => ~result.ok)

\* the binding order of the infix operators, loosest first:
\* AND, OR, the comparisons, + and -, * and /
BindingLevel(tok) ==
    IF tok = kw("And") THEN 0
    ELSE IF tok = kw("Or") THEN 1
    ELSE IF tok \in Comparisons THEN 2
    ELSE IF tok \in {Plus, Minus} THEN 3
    ELSE 4

OperandA == ExprIdentifier("a")

Operand2 == ExprNumber("2")

OperandC == ExprIdentifier("c")

\* (a p 2) q c
NestedLeft(p, q) ==
    BinaryOperation(BinaryOperation(OperandA, BinaryOperatorOf(p), Operand2),
                    BinaryOperatorOf(q), OperandC)

\* a p (2 q c)
NestedRight(p, q) ==
    BinaryOperation(OperandA, BinaryOperatorOf(p),
                    BinaryOperation(Operand2, BinaryOperatorOf(q), OperandC))

\* C4: operators nest by binding order, prefix > * / > + - > comparisons >
\* OR > AND > postfix: in `a p 2 q c` the tighter of p and q takes the middle
\* operand, a prefix operator takes only the operand next to it, a postfix
\* one takes the whole expression before it; with the four examples of the
\* specification.
C4_NestingFollowsBindingOrder ==
    Returned /\ tokens \in ExpressionInputs =>
        /\ \A c \in InfixCases :
              tokens = InfixTokensOf(c) =>
                  /\ result.ok
                  /\ BindingLevel(c.q) > BindingLevel(c.p) =>
                         result.stmt.columns = <<NestedRight(c.p, c.q)>>
                  /\ BindingLevel(c.p) > BindingLevel(c.q) =>
                         result.stmt.columns = <<NestedLeft(c.p, c.q)>>
        /\ \A c \in PrefixCases :
              tokens = PrefixTokensOf(c) =>
                  /\ result.ok
                  /\ result.stmt.columns =
                         <<BinaryOperation(UnaryOperation(OperandA, PrefixOperatorOf(c.u)),
                                           BinaryOperatorOf(c.p), Operand2)>>
        /\ \A c \in PostfixCases :
              tokens = PostfixTokensOf(c) =>
                  /\ result.ok
                  /\ result.stmt.orderby =
                         <<UnaryOperation(BinaryOperation(OperandA, BinaryOperatorOf(c.p),
                                                          Operand2),
                                          PostfixOperatorOf(c.s))>>
        /\ tokens = Example123 =>
              /\ result.ok
              /\ result.stmt.columns =
                     <<BinaryOperation(ExprNumber("1"), "Plus",
                                       BinaryOperation(ExprNumber("2"), "Multiply",
                                                       ExprNumber("3")))>>
        /\ tokens = ExampleNotAnd =>
              /\ result.ok
              /\ result.stmt.columns =
                     <<BinaryOperation(UnaryOperation(ExprIdentifier("a"), "Not"), "And",
                                       ExprIdentifier("b"))>>
        /\ tokens = ExampleRange =>
              /\ result.ok
              /\ result.stmt.where =
                     Some(BinaryOperation(
                              BinaryOperation(ExprIdentifier("x"), "GreaterThan",
                                              ExprNumber("5")),
                              "And",
                              BinaryOperation(ExprIdentifier("x"), "LessThan",
                                              ExprNumber("10"))))

\* `a AND 2 OR c` was parsed, as a AND (2 OR c)
C4_Witness ==
    /\ ReturnedOk
    /\ tokens = InfixTokensOf([p |-> kw("And"), q |-> kw("Or")])
    /\ result.stmt.columns = <<NestedRight(kw("And"), kw("Or"))>>

\* the first FROM of the token sequence (expressions hold no FROM)
FromIndex == CHOOSE i \in 1..Len(tokens) : tokens[i] = kw("From") /\ \A j \in 1..i - 1 : tokens[j] # kw("From")

\* each generated SELECT with the statement it is written to mean
SelectTable == {<<SelectTokens(c), SelectMeaning(c)>> : c \in SelectCases}

\* C5: a well-formed SELECT gives Select with the projection expressions in
\* the order written, the identifier after FROM, the ORDER BY expressions in
\* the order written; where is None exactly when no WHERE follows the table
\* name and orderby is empty exactly when there is no ORDER BY.
C5_SelectFields ==
    /\ Returned /\ tokens \in SelectInputs =>
           result.ok /\ <<tokens, result.stmt>> \in SelectTable
    /\ ReturnedOk /\ result.stmt.stmt = "Select" =>
           /\ result.stmt.from = tokens[FromIndex + 1].v
           /\ result.stmt.where = None <=> tokens[FromIndex + 2] # kw("Where")
           /\ result.stmt.orderby = <<>> <=> ~\E i \in 1..pos : tokens[i] = kw("Order")

\* SELECT a, 1 + 2 FROM t WHERE x > 5 ORDER BY b DESC, a; was parsed
C5_Witness ==
    /\ ReturnedOk
    /\ \E c \in SelectCases :
          /\ tokens = SelectTokens(c)
          /\ Len(c.columns) = 2 /\ c.columns[1] # c.columns[2]
          /\ c.where.tree # None
          /\ Len(c.orderby) = 2 /\ c.orderby[1] # c.orderby[2]
          /\ result.stmt.columns = Trees(c.columns)

\* each generated CREATE TABLE with the statement it is written to mean
CreateTableTable ==
    {<<CreateTokens(c), CreateMeaning(c)>> : c \in {d \in CreateCases : ~d.trailing_comma}}

\* C6: a well-formed CREATE TABLE gives CreateTable with one TableColumn per
\* column definition in declaration order, each with its name, its type and
\* its constraints in the order written, repetitions kept; `()` gives the
\* empty column_list.
C6_CreateTableFields ==
    Returned /\ tokens \in CreateInputs =>
        result.ok /\ <<tokens, result.stmt>> \in CreateTableTable

\* a table of two columns was parsed, the first with a constraint written twice
C6_Witness ==
    /\ ReturnedOk
    /\ \E c \in CreateCases :
          /\ ~c.trailing_comma
          /\ tokens = CreateTokens(c)
          /\ Len(c.columns) = 2
          /\ Len(c.columns[1].constraints) = 2
          /\ c.columns[1].constraints[1] = c.columns[1].constraints[2]
          /\ Len(result.stmt.column_list) = 2
          /\ Len(result.stmt.column_list[1].constraints) = 2

\* C7: a token sequence that holds an Invalid token, at any position, is
\* answered with a syntax error, never with a Statement.
C7_InvalidTokenIsRejected ==
    Returned /\ (\E i \in 1..Len(tokens) : tokens[i].k = "Invalid") => ~result.ok

\* C8: infix operators of equal binding power associate to the left:
\* `a p 2 q c` is (a p 2) q c.
C8_LeftAssociative ==
    Returned /\ tokens \in ExpressionInputs =>
        \A c \in InfixCases :
            tokens = InfixTokensOf(c) /\ BindingLevel(c.p) = BindingLevel(c.q) =>
                /\ result.ok
                /\ result.stmt.columns = <<NestedLeft(c.p, c.q)>>

\* `a - 2 + c` was parsed, as (a - 2) + c
C8_Witness ==
    /\ ReturnedOk
    /\ tokens = InfixTokensOf([p |-> Minus, q |-> Plus])
    /\ result.stmt.columns = <<NestedLeft(Minus, Plus)>>

\* C9: in the column list of an accepted CREATE TABLE a comma is never
\* directly followed by the closing parenthesis.
C9_CommaOnlySeparatesColumns ==
    ReturnedOk /\ result.stmt.stmt = "CreateTable" =>
        ~\E i \in 1..Len(tokens) - 1 :
            i + 1 <= pos /\ tokens[i] = Comma /\ tokens[i + 1] = RightParentheses

InParse == phase = "parsing" /\ tokens # <<>>

\* a step of the parser, which reads the cursor once
CursorStep == InParse /\ phase' \in {"parsing", "done"}

\* C10: while a non-empty token sequence is parsed pos is a valid index and
\* never decreases; peek and a failing expect leave it alone; next and a
\* succeeding expect add one to it, except at the last index, where it stays
\* and the last token is read again.
C10_CursorDiscipline ==
    /\ [](phase \in {"parsing", "done"} /\ tokens # <<>> => pos \in 0..Len(tokens) - 1)
    /\ [][CursorStep =>
              /\ pos' >= pos
              /\ seen' = tokens[pos + 1]
              /\ op' \in {"peek", "expect_err"} => pos' = pos
              /\ op' \in {"next", "expect_ok"} =>
                     pos' = IF pos = Len(tokens) - 1 THEN pos ELSE pos + 1
       ]_vars

\* next was called at the last index: the last token was read a second time
C10_Witness ==
    /\ phase = "parsing"
    /\ Len(tokens) >= 2
    /\ pos = Len(tokens) - 1
    /\ op = "next"
    /\ seen = tokens[Len(tokens)]

\* the submitted text is the one line `SELECT a FROM t WHERE a <> b;`
SubmittedLessGreater ==
    /\ phase \in {"parsing", "done"}
    /\ buffer = LineLessGreater

\* the statement `SELECT a FROM t WHERE a != b;` stands for
NotEqualStatement ==
    Select(<<ExprIdentifier("a")>>, "t",
           Some(BinaryOperation(ExprIdentifier("a"), "NotEqual", ExprIdentifier("b"))),
           <<>>)

\* C11: the character pair `<>` is the not-equal operator, equivalent to `!=`:
\* the tokenizer emits the single token NotEqual for it, so the text
\* `SELECT a FROM t WHERE a <> b;` gives the tokens of
\* `SELECT a FROM t WHERE a != b;` and parses to the statement whose WHERE
\* clause is BinaryOperation{NotEqual, a, b}, NotEqual binding as the other
\* comparison operators do.
C11_LessGreaterIsNotEqual ==
    SubmittedLessGreater =>
        /\ tokens = tokenize(LineBangEqual).tokens
        /\ NotEqual \in Comparisons
        /\ Returned => result = Ok(NotEqualStatement)
====
